---- MODULE Spec2Model ----
(***************************************************************************)
(* Checkout flow of Task.cpp: products (plain / expirable / shippable),    *)
(* carts of (product, quantity) lines, one customer balance, Cart::add and *)
(* checkout.  Prices and weights are doubles in the source; the catalog    *)
(* used here has integral prices and integral weights (kg), for which the  *)
(* double arithmetic of the source is exact, so they are modelled as       *)
(* integers.  Quantities are C++ int; the values used stay far from the    *)
(* limits of int.                                                          *)
(***************************************************************************)
EXTENDS Integers, Sequences, FiniteSets, TLC

\* ---------------------------------------------------------------- bounds
\* Largest number of lines held by all carts together.
MaxLines == 2
\* Largest quantity argument passed to Cart::add.
MaxQty == 2
\* Stock of every product at construction; no checkout is explored that
\* lifts a stock above it (a negative line quantity restocks).
MaxStock == 2
\* Customer balance at construction; no checkout is explored that lifts the
\* balance above it (a negative total credits the customer).
MaxBalance == 25

\* ---------------------------------------------------------------- catalog
\* Shipping rate: currency units per kilogram.
ShippingRate == 10

Products == {"ScratchCard", "Cheese"}
Carts == {"cart1", "cart2"}

\* int quantity argument of Cart::add: any int, negative and zero included.
Quantities == (0 - 1) .. MaxQty

\* Product::price
price == [p \in Products |-> IF p = "Cheese" THEN 2 ELSE 1]
\* The products that are ExpirableProduct (here ExpirableShippableProduct).
Expirable == {"Cheese"}
\* The products that implement Shippable.
ShippableProducts == {"Cheese"}
\* ExpirableProduct::expiryDate
expiryDate == [p \in Expirable |-> 0]
\* ShippableProduct::weight / ExpirableShippableProduct::weight (kg)
weight == [p \in ShippableProducts |-> 2]
\* Values of the wall clock time(nullptr).
Times == {0, 1}

NoProduct == "none"

VARIABLES
    quantity,   \* Product::quantity, per product
    balance,    \* Customer::balance
    items,      \* Cart::items, per cart: sequence of CartItem
    now,        \* the wall clock read by time(nullptr)
    outcome     \* what the last call did: return / exception, and the receipt

vars == <<quantity, balance, items, now, outcome>>

\* ---------------------------------------------------------------- products
\* isExpired without the override of ExpirableProduct
isExpiredNever(p, t) == FALSE
\* Product::isExpired / ExpirableProduct::isExpired at clock value t
isExpired(p, t) == IF p \in Expirable THEN t > expiryDate[p] ELSE FALSE

\* Product::isShippable and its overrides
isShippable(p) == p \in ShippableProducts

getWeight(p) == weight[p]
getPrice(p) == price[p]

\* reduceQuantity that leaves the stock as it is
reduceQuantityNoop(q, amount) == q
\* Product::reduceQuantity
reduceQuantity(q, amount) == q - amount

\* pay that charges the amount twice
payTwice(b, amount) == b - amount - amount
\* Customer::pay
pay(b, amount) == b - amount

\* ---------------------------------------------------------------- cart
CartItem(p, q) == [product |-> p, quantity |-> q]

\* Cart::isEmpty
isEmpty(lines) == Len(lines) = 0

\* clear that leaves the first of several lines
clearKeepsFirst(lines) == IF Len(lines) > 1 THEN <<lines[1]>> ELSE <<>>
\* Cart::clear
clear(lines) == <<>>

\* the guard of Cart::add, off by one
NotEnoughStockOffByOne(q, stock) == q > stock + 1
\* The guard of Cart::add
NotEnoughStock(q, stock) == q > stock

\* What a call did: the call (op, cart, product and quantity arguments), how
\* it ended (Success or the exception thrown) and, for a successful
\* checkout, the sums printed on the receipt.
Result(op, c, kind, p, q, sub, ship) ==
    [op |-> op, cart |-> c, kind |-> kind, product |-> p, arg |-> q,
     subtotal |-> sub, shipping |-> ship, total |-> sub + ship]

\* Number of lines held by all carts together.
TotalLines(its) ==
    Cardinality(UNION {{<<c, i>> : i \in 1 .. Len(its[c])} : c \in Carts})

\* Cart::add(product, quantity) on cart c
add(c, p, q) ==
    /\ IF NotEnoughStock(q, quantity[p])
       THEN /\ outcome' = Result("add", c, "InsufficientStock", p, q, 0, 0)
            /\ UNCHANGED items
       ELSE /\ TotalLines(items) < MaxLines
            /\ items' = [items EXCEPT ![c] = Append(@, CartItem(p, q))]
            /\ outcome' = Result("add", c, "Success", p, q, 0, 0)
    /\ UNCHANGED <<quantity, balance, now>>

\* ---------------------------------------------------------------- checkout
\* the two checks in the other order
LineErrorStockFirst(item, stock, t) ==
    IF item.quantity > stock THEN "InsufficientStock"
    ELSE IF isExpired(item.product, t) THEN "ProductExpired"
    ELSE "ok"
\* The two checks made on one line of the cart, in their order.
LineError(item, stock, t) ==
    IF isExpired(item.product, t) THEN "ProductExpired"
    ELSE IF item.quantity > stock THEN "InsufficientStock"
    ELSE "ok"

\* price * quantity of a line
LinePrice(item) == getPrice(item.product) * item.quantity

\* shipping cost that ignores the weight
LineShippingUnweighted(item) ==
    IF isShippable(item.product) THEN item.quantity * ShippingRate ELSE 0
\* shipping cost of a line: weight * quantity * 10 when shippable
LineShipping(item) ==
    IF isShippable(item.product)
    THEN (getWeight(item.product) * item.quantity) * ShippingRate
    ELSE 0

\* The first loop of checkout from line i on, with the sums accumulated so
\* far: the first failing line ends it with the exception, else the sums.
RECURSIVE Validate(_, _, _, _, _, _)
Validate(lines, i, stock, t, subtotal, shippingCost) ==
    IF i > Len(lines)
    THEN [kind |-> "ok", product |-> NoProduct,
          subtotal |-> subtotal, shippingCost |-> shippingCost]
    ELSE LET item == lines[i]
             err == LineError(item, stock[item.product], t)
         IN IF err # "ok"
            THEN [kind |-> err, product |-> item.product,
                  subtotal |-> 0, shippingCost |-> 0]
            ELSE Validate(lines, i + 1, stock, t,
                          subtotal + LinePrice(item),
                          shippingCost + LineShipping(item))

\* The second loop of checkout: reduceQuantity line after line.
RECURSIVE ReduceAll(_, _, _)
ReduceAll(lines, i, stock) ==
    IF i > Len(lines) THEN stock
    ELSE LET item == lines[i]
         IN ReduceAll(lines, i + 1,
                [stock EXCEPT ![item.product] = reduceQuantity(@, item.quantity)])

\* the balance check with the comparison turned round
InsufficientBalanceFlipped(b, total) == b > total
\* The balance check of checkout
InsufficientBalance(b, total) == b < total

Fails(c, kind, p) ==
    /\ outcome' = Result("checkout", c, kind, p, 0, 0, 0)
    /\ UNCHANGED <<quantity, balance, items, now>>

\* checkout(customer, cart) on cart c.  The first two conjuncts of the
\* successful branch are the caps MaxStock and MaxBalance on what is
\* explored; the source has no such test.
checkout(c) ==
    LET lines == items[c]
        v == Validate(lines, 1, quantity, now, 0, 0)
        total == v.subtotal + v.shippingCost
        stock == ReduceAll(lines, 1, quantity)
    IN IF isEmpty(lines) THEN Fails(c, "EmptyCart", NoProduct)
       ELSE IF v.kind # "ok" THEN Fails(c, v.kind, v.product)
       ELSE IF InsufficientBalance(balance, total)
            THEN Fails(c, "InsufficientFunds", NoProduct)
       ELSE /\ \A p \in Products : stock[p] <= MaxStock
            /\ pay(balance, total) <= MaxBalance
            /\ quantity' = stock
            /\ balance' = pay(balance, total)
            /\ items' = [items EXCEPT ![c] = clear(@)]
            /\ outcome' = Result("checkout", c, "Success", NoProduct, 0,
                                 v.subtotal, v.shippingCost)
            /\ UNCHANGED now

\* The wall clock advances between calls.
Tick ==
    /\ \E t \in Times : t > now /\ now' = t
    /\ outcome' = Result("tick", "none", "Success", NoProduct, 0, 0, 0)
    /\ UNCHANGED <<quantity, balance, items>>

Init ==
    /\ quantity = [p \in Products |-> MaxStock]
    /\ balance = MaxBalance
    /\ items = [c \in Carts |-> <<>>]
    /\ now = 0
    /\ outcome = Result("init", "none", "Success", NoProduct, 0, 0, 0)

Next ==
    \/ \E c \in Carts, p \in Products, q \in Quantities : add(c, p, q)
    \/ \E c \in Carts : checkout(c)
    \/ Tick

Spec == Init /\ [][Next]_vars

\* ================================================================ claims
\* The sums of the claims, stated over a cart's lines as a whole.
RECURSIVE SumTo(_, _)
SumTo(f, n) == IF n = 0 THEN 0 ELSE f[n] + SumTo(f, n - 1)

\* sum over lines of unitPrice * requestedQuantity
SubtotalOf(lines) ==
    SumTo([i \in 1 .. Len(lines) |->
              price[lines[i].product] * lines[i].quantity], Len(lines))

\* sum over shippable lines of weight * requestedQuantity
ShippedWeightOf(lines) ==
    SumTo([i \in 1 .. Len(lines) |->
              IF lines[i].product \in ShippableProducts
              THEN weight[lines[i].product] * lines[i].quantity
              ELSE 0], Len(lines))

TotalOf(lines) == SubtotalOf(lines) + 10 * ShippedWeightOf(lines)

\* the quantity a cart requests of product p, over all its lines
RequestedOf(lines, p) ==
    SumTo([i \in 1 .. Len(lines) |->
              IF lines[i].product = p THEN lines[i].quantity ELSE 0],
          Len(lines))

\* the line's product is expired now
ExpiredLine(line) ==
    line.product \in Expirable /\ now > expiryDate[line.product]
\* the line requests more than its product's stock now
ShortLine(line) == line.quantity > quantity[line.product]
\* the indices of the lines that fail the expiry or the stock check
FailingLines(lines) ==
    {i \in 1 .. Len(lines) : ExpiredLine(lines[i]) \/ ShortLine(lines[i])}
FirstOf(S) == CHOOSE i \in S : \A j \in S : i <= j

FailureKinds ==
    {"EmptyCart", "ProductExpired", "InsufficientStock", "InsufficientFunds"}

\* the step is a call of checkout on cart c
CheckoutStep(c) == outcome'.op = "checkout" /\ outcome'.cart = c
\* the step is a call of Cart::add on cart c
AddStep(c) == outcome'.op = "add" /\ outcome'.cart = c
NothingSettled == quantity' = quantity /\ balance' = balance /\ items' = items

\* C1: checkout is all-or-nothing: either it succeeds, every product's
\* quantity is reduced by what the cart's lines request of it and the balance
\* by the full total, or it fails with one of the four errors and no product
\* quantity, no balance and no cart line changes.
C1_AllOrNothing ==
    [][\A c \in Carts : CheckoutStep(c) =>
        \/ /\ outcome'.kind = "Success"
           /\ quantity' = [p \in Products |->
                              quantity[p] - RequestedOf(items[c], p)]
           /\ balance' = balance - TotalOf(items[c])
        \/ /\ outcome'.kind \in FailureKinds
           /\ NothingSettled]_vars

\* a checkout has succeeded on a cart that held a shippable line, and stock
\* has been taken
C1_Witness ==
    /\ outcome.op = "checkout" /\ outcome.kind = "Success"
    /\ outcome.shipping > 0
    /\ \E p \in Products : quantity[p] < MaxStock

\* C2: no product's quantity is ever negative.
C2_StockNeverNegative == \A p \in Products : quantity[p] >= 0

\* the cart can be sold: it is not empty, no line is expired or short of
\* stock, and the balance covers subtotal + shipping
Sellable(lines) ==
    /\ lines # <<>>
    /\ FailingLines(lines) = {}
    /\ balance >= TotalOf(lines)

\* C3: checkout of a sellable cart succeeds with subtotal = sum of
\* price * quantity, shipping = 10 * sum of weight * quantity over the
\* shippable lines, and balance after = balance before - subtotal - shipping.
C3_SellableCartSucceeds ==
    [][\A c \in Carts : (CheckoutStep(c) /\ Sellable(items[c])) =>
        /\ outcome'.kind = "Success"
        /\ outcome'.subtotal = SubtotalOf(items[c])
        /\ outcome'.shipping = 10 * ShippedWeightOf(items[c])
        /\ balance' = balance - SubtotalOf(items[c])
                              - 10 * ShippedWeightOf(items[c])]_vars

\* a checkout has succeeded on a cart with a shippable and a plain line
C3_Witness ==
    /\ outcome.op = "checkout" /\ outcome.kind = "Success"
    /\ outcome.shipping > 0
    /\ outcome.subtotal > 0
    /\ quantity["ScratchCard"] < MaxStock /\ quantity["Cheese"] < MaxStock
    /\ balance = MaxBalance - outcome.total

HasExpiredLine(lines) == \E i \in 1 .. Len(lines) : ExpiredLine(lines[i])
FirstExpired(lines) ==
    FirstOf({i \in 1 .. Len(lines) : ExpiredLine(lines[i])})

\* C4 as stated: checkout of a cart with an expired line fails with
\* ProductExpired and changes no quantity and no balance, whatever the other
\* lines are.
C4_ExpiredAlwaysProductExpired ==
    [][\A c \in Carts : (CheckoutStep(c) /\ HasExpiredLine(items[c])) =>
        /\ outcome'.kind = "ProductExpired"
        /\ quantity' = quantity /\ balance' = balance]_vars

\* C4 amended: checkout of a cart with an expired line fails and changes no
\* quantity and no balance; it fails with ProductExpired unless a line before
\* the first expired one requests more than its product's stock, and then it
\* fails with InsufficientStock.
C4_ExpiredFails ==
    [][\A c \in Carts : (CheckoutStep(c) /\ HasExpiredLine(items[c])) =>
        /\ quantity' = quantity /\ balance' = balance
        /\ IF \E j \in 1 .. FirstExpired(items[c]) - 1 : ShortLine(items[c][j])
           THEN outcome'.kind = "InsufficientStock"
           ELSE outcome'.kind = "ProductExpired"]_vars

\* a checkout has failed with ProductExpired on a cart whose expired line
\* comes second
C4_Witness ==
    /\ outcome.op = "checkout" /\ outcome.kind = "ProductExpired"
    /\ \E c \in Carts :
        /\ outcome.cart = c
        /\ Len(items[c]) = 2
        /\ ~ExpiredLine(items[c][1])
        /\ ExpiredLine(items[c][2])

\* C5 as stated: checkout of a non-empty cart whose subtotal + shipping
\* exceeds the balance fails with InsufficientFunds and changes nothing.
C5_UnaffordableAlwaysInsufficientFunds ==
    [][\A c \in Carts :
        (CheckoutStep(c) /\ items[c] # <<>> /\ TotalOf(items[c]) > balance) =>
            /\ outcome'.kind = "InsufficientFunds"
            /\ NothingSettled]_vars

\* C5 amended: checkout of a non-empty cart whose subtotal + shipping exceeds
\* the balance fails and changes no quantity, no balance and no cart line; it
\* fails with InsufficientFunds when no line is expired or short of stock,
\* and otherwise with the error of the first such line.
C5_UnaffordableFails ==
    [][\A c \in Carts :
        (CheckoutStep(c) /\ items[c] # <<>> /\ TotalOf(items[c]) > balance) =>
            /\ NothingSettled
            /\ IF FailingLines(items[c]) = {}
               THEN outcome'.kind = "InsufficientFunds"
               ELSE outcome'.kind \in {"ProductExpired", "InsufficientStock"}]_vars

\* a checkout has failed with InsufficientFunds on a cart that costs more
\* than the balance
C5_Witness ==
    /\ outcome.op = "checkout" /\ outcome.kind = "InsufficientFunds"
    /\ \E c \in Carts :
        /\ outcome.cart = c
        /\ items[c] # <<>>
        /\ TotalOf(items[c]) > balance

\* C6: Cart::add with quantity greater than the product's quantity fails with
\* InsufficientStock and leaves the cart's lines and the product's quantity
\* as they were; otherwise it appends exactly the line (product, quantity) at
\* the end of the cart and changes no product quantity.
C6_AddChecksStock ==
    [][\A c \in Carts : AddStep(c) =>
        LET p == outcome'.product
            q == outcome'.arg
        IN /\ quantity' = quantity
           /\ IF q > quantity[p]
              THEN outcome'.kind = "InsufficientStock" /\ items' = items
              ELSE /\ outcome'.kind = "Success"
                   /\ items' = [items EXCEPT ![c] =
                                   @ \o <<[product |-> p, quantity |-> q]>>]]_vars

\* an add has been refused for a quantity one above the stock, by a cart that
\* already holds a line
C6_Witness ==
    /\ outcome.op = "add" /\ outcome.kind = "InsufficientStock"
    /\ outcome.arg = quantity[outcome.product] + 1
    /\ Len(items[outcome.cart]) > 0

\* C7: checkout of a cart with no lines fails with EmptyCart; a successful
\* checkout leaves the cart empty, and a checkout of the same cart right
\* after it fails with EmptyCart and changes no balance and no quantity.
C7_EmptyCartAndNoReplay ==
    [][\A c \in Carts : CheckoutStep(c) =>
        /\ (items[c] = <<>> =>
                outcome'.kind = "EmptyCart" /\ NothingSettled)
        /\ (outcome'.kind = "Success" => items'[c] = <<>>)
        /\ ((outcome.op = "checkout" /\ outcome.cart = c
                /\ outcome.kind = "Success") =>
                outcome'.kind = "EmptyCart" /\ NothingSettled)]_vars

\* a checkout has failed with EmptyCart after the customer has been charged
C7_Witness ==
    /\ outcome.op = "checkout" /\ outcome.kind = "EmptyCart"
    /\ balance < MaxBalance
    /\ items[outcome.cart] = <<>>

\* C8: every line held by a cart has requestedQuantity > 0.
C8_LinesPositive ==
    \A c \in Carts : \A i \in 1 .. Len(items[c]) : items[c][i].quantity > 0

\* C9: checkout reports the first error: when some line fails the expiry or
\* the stock check, the error is that of the earliest such line (expired if
\* that line's product is expired, else insufficient stock) and names its
\* product; InsufficientFunds is reported only when no line fails.
C9_FirstErrorWins ==
    [][\A c \in Carts : (CheckoutStep(c) /\ items[c] # <<>>) =>
        LET lines == items[c]
            failing == FailingLines(lines)
        IN IF failing # {}
           THEN LET first == lines[FirstOf(failing)]
                IN /\ outcome'.kind = IF ExpiredLine(first)
                                      THEN "ProductExpired"
                                      ELSE "InsufficientStock"
                   /\ outcome'.product = first.product
           ELSE outcome'.kind \in {"Success", "InsufficientFunds"}]_vars

\* a checkout has failed with InsufficientStock on the first line of a cart
\* whose second line is expired and whose total exceeds the balance
C9_Witness ==
    /\ outcome.op = "checkout" /\ outcome.kind = "InsufficientStock"
    /\ \E c \in Carts :
        /\ outcome.cart = c
        /\ Len(items[c]) = 2
        /\ ShortLine(items[c][1])
        /\ ExpiredLine(items[c][2])
        /\ outcome.product = items[c][1].product
        /\ TotalOf(items[c]) > balance

\* C10: the balance is changed only by a successful checkout, and is never
\* negative.
C10_BalanceSafe ==
    /\ [](balance >= 0)
    /\ [][balance' # balance =>
            outcome'.op = "checkout" /\ outcome'.kind = "Success"]_vars

\* a checkout with a negative total has succeeded and credited the customer
C10_Witness ==
    /\ outcome.op = "checkout" /\ outcome.kind = "Success"
    /\ outcome.total < 0
    /\ balance >= 0

====
